---- MODULE Spec2Model ----
(***************************************************************************)
(* BrandBoost: the ContentGenerator of src/utils/generator.py with the     *)
(* lookup tables of src/utils/prompt_templates.py, the ROI calculation of  *)
(* src/utils/visualization.py and the script run of src/app.py.            *)
(*                                                                         *)
(* Text is a sequence of tokens.  A token is a 5-tuple: Ch(c) is the one   *)
(* character c, Lit(ct, tone, lang, i) is the i-th literal run of the      *)
(* table entry for (ct, tone, lang).  The first and the last literal run   *)
(* of every entry of both tables start and end with a non-blank            *)
(* character and hold no semicolon, so one token stands for the run.       *)
(***************************************************************************)
EXTENDS Integers, Sequences, FiniteSets, TLC

VARIABLES
    heap,       \* the dict objects: "stats" is self.generation_stats, "copy" a dict made by dict.copy()
    held,       \* the dict the caller holds from its last get_generation_stats: "none", "stats" or "copy"
    lastOp,     \* the operation that ran last
    args,       \* the arguments of the last operation
    remote,     \* what self.client.text_generation did in the last generate_content call
    ret,        \* what the last operation returned or raised
    st,         \* the streamlit messages the last operation emitted
    fs,         \* the file system: whether the directory reports exists, and the files written, by path
    attempts,   \* the generate_content calls so far that reached the remote attempt
    threads,    \* the generate_content calls that run concurrently: where each stands, and the value it has loaded
    session     \* st.session_state of the application, and what its last script run did

vars == <<heap, held, lastOp, args, remote, ret, st, fs, attempts, threads, session>>

-----------------------------------------------------------------------------
(* Bounds *)

MaxGenerations == 3
MaxCalls == 2
MaxRespLen == 2
NumThreads == 2

-----------------------------------------------------------------------------
(* Text *)

Ch(c) == <<"ch", c, "", "", 0>>

Lit(ct, tone, lang, i) == <<"lit", ct, tone, lang, i>>

Msg(m) == <<"msg", m, "", "", 0>>

IsSpace(t) == t[1] = "ch" /\ t[2] = " "

RECURSIVE lstrip(_)
lstrip(s) == IF s # <<>> /\ IsSpace(Head(s)) THEN lstrip(Tail(s)) ELSE s

RECURSIVE rstrip(_)
rstrip(s) ==
    IF s # <<>> /\ IsSpace(s[Len(s)]) THEN rstrip(SubSeq(s, 1, Len(s) - 1)) ELSE s

StripIdentity(s) == s

\* str.strip(): the text without its leading and trailing blanks
strip(s) == rstrip(lstrip(s))

KeepSemicolons(s) == s

RECURSIVE replace_semicolons(_)
\* features.replace(';', ', ')
replace_semicolons(s) ==
    IF s = <<>> THEN <<>>
    ELSE IF Head(s) = Ch(";")
         THEN <<Ch(","), Ch(" ")>> \o replace_semicolons(Tail(s))
         ELSE <<Head(s)>> \o replace_semicolons(Tail(s))

RECURSIVE StrsUpTo(_, _)
StrsUpTo(chars, n) ==
    IF n = 0 THEN {<<>>}
    ELSE LET shorter == StrsUpTo(chars, n - 1)
         IN  shorter \cup {Append(s, c) : s \in shorter, c \in chars}

-----------------------------------------------------------------------------
(* The closed enumerations and the product records *)

ContentTypes == {"Product Description", "Social Post", "Email"}
Tones == {"Professional", "Playful", "Luxury", "Casual"}
Languages == {"English", "French"}

RequiredFields ==
    <<"Product Name", "Category", "Features/Attributes", "Target Audience">>

FieldSet == {RequiredFields[i] : i \in 1..Len(RequiredFields)}

\* Python values
PyNone == [type |-> "NoneType"]
PyStr(s) == [type |-> "str", s |-> s]

\* Exceptions
KeyError(k) == [exc |-> "KeyError", arg |-> k]
AttributeErrorStrip == [exc |-> "AttributeError", arg |-> "strip"]

\* str(e)
StrOfError(e) ==
    IF e.exc = "KeyError" THEN <<Ch("'"), Msg(e.arg), Ch("'")>>
    ELSE <<Msg("'NoneType' object has no attribute 'strip'")>>

Raise(e) == [raised |-> TRUE, exc |-> e]
Value(v) == [raised |-> FALSE, value |-> v]

-----------------------------------------------------------------------------
(* src/utils/prompt_templates.py *)

\* the keys of the dict templates, lines 19-321: content type, tone, language
templates ==
         {<<"Product Description", "Professional", language>> : language \in {"English", "French"}}
    \cup {<<"Product Description", "Playful", language>> : language \in {"English", "French"}}
    \cup {<<"Product Description", "Luxury", language>> : language \in {"English", "French"}}
    \cup {<<"Product Description", "Casual", language>> : language \in {"English", "French"}}
    \cup {<<"Social Post", "Professional", language>> : language \in {"English", "French"}}
    \cup {<<"Social Post", "Playful", language>> : language \in {"English", "French"}}
    \cup {<<"Social Post", "Luxury", language>> : language \in {"English", "French"}}
    \cup {<<"Social Post", "Casual", language>> : language \in {"English", "French"}}
    \cup {<<"Email", "Professional", language>> : language \in {"English", "French"}}
    \cup {<<"Email", "Playful", language>> : language \in {"English", "French"}}
    \cup {<<"Email", "Luxury", language>> : language \in {"English", "French"}}
    \cup {<<"Email", "Casual", language>> : language \in {"English", "French"}}

\* the keys of the dict recommendations, lines 337-356: content type, tone
recommendations ==
    {<<"Product Description", tone>> : tone \in {"Professional", "Playful", "Luxury", "Casual"}}
    \cup {<<"Social Post", tone>> : tone \in {"Professional", "Playful", "Luxury", "Casual"}}
    \cup {<<"Email", tone>> : tone \in {"Professional", "Playful", "Luxury", "Casual"}}

\* table[content_type][tone][language]: a KeyError at the first level that misses
TableLookup(table, ct, tone, lang) ==
    IF \A k \in table : k[1] # ct THEN Raise(KeyError(ct))
    ELSE IF \A k \in table : k[1] # ct \/ k[2] # tone THEN Raise(KeyError(tone))
    ELSE IF <<ct, tone, lang>> \notin table THEN Raise(KeyError(lang))
    ELSE Value(<<ct, tone, lang>>)

get_prompt_template_with_default(content_type, tone, language) ==
    IF TableLookup(templates, content_type, tone, language).raised
    THEN Value(<<"Product Description", "Professional", "English">>)
    ELSE TableLookup(templates, content_type, tone, language)

get_prompt_template(content_type, tone, language) ==
    TableLookup(templates, content_type, tone, language)

\* prompt_template.format(product_name=..., category=..., features=..., target_audience=...)
\* every template names the four placeholders in this order
FormatPrompt(key, product_name, category, features, target_audience) ==
    <<Lit(key[1], key[2], key[3], 100)>> \o product_name
    \o <<Lit(key[1], key[2], key[3], 101)>> \o category
    \o <<Lit(key[1], key[2], key[3], 102)>> \o features
    \o <<Lit(key[1], key[2], key[3], 103)>> \o target_audience
    \o <<Lit(key[1], key[2], key[3], 104)>>

\* recommendations[content_type][tone]; one token stands for the entry, a
\* non-empty string literal
get_recommendations(content_type, tone) ==
    IF \A k \in recommendations : k[1] # content_type THEN Raise(KeyError(content_type))
    ELSE IF <<content_type, tone>> \notin recommendations THEN Raise(KeyError(tone))
    ELSE Value(<<Lit(content_type, tone, "", 200)>>)

-----------------------------------------------------------------------------
(* ContentGenerator._generate_fallback_content *)

\* the order in which each entry of fallback_templates names the attributes
\* (the English and the French entry of a pair agree)
FallbackOrder(ct, tone) ==
    IF ct = "Product Description" THEN
        IF tone = "Professional"
        THEN <<"Product Name", "Category", "Target Audience", "Features/Attributes", "Product Name">>
        ELSE <<"Product Name", "Category", "Target Audience", "Features/Attributes">>
    ELSE IF ct = "Social Post" THEN
        IF tone = "Playful"
        THEN <<"Product Name", "Target Audience", "Features/Attributes">>
        ELSE IF tone = "Luxury"
        THEN <<"Product Name", "Category", "Features/Attributes", "Target Audience">>
        ELSE <<"Product Name", "Category", "Target Audience", "Features/Attributes">>
    ELSE
        IF tone = "Professional"
        THEN <<"Product Name", "Category", "Product Name", "Category",
               "Target Audience", "Features/Attributes">>
        ELSE IF tone = "Playful"
        THEN <<"Product Name", "Product Name", "Target Audience",
               "Features/Attributes", "Category">>
        ELSE <<"Product Name", "Product Name", "Category", "Target Audience",
               "Features/Attributes">>

FallbackFieldAllReplaced(product_data, f) == replace_semicolons(product_data[f])

\* what an f-string of the table puts for one attribute
FallbackField(product_data, f) ==
    IF f = "Features/Attributes"
    THEN replace_semicolons(product_data[f])
    ELSE product_data[f]

RECURSIVE FallbackText(_, _, _, _, _, _)
\* the f-string of one entry from its i-th attribute on: attribute, literal run, ...
FallbackText(product_data, ct, tone, lang, order, i) ==
    IF i > Len(order) THEN <<>>
    ELSE FallbackField(product_data, order[i])
         \o <<Lit(ct, tone, lang, i)>>
         \o FallbackText(product_data, ct, tone, lang, order, i + 1)

FallbackEntry(product_data, ct, tone, lang) ==
    <<Lit(ct, tone, lang, 0)>>
    \o FallbackText(product_data, ct, tone, lang, FallbackOrder(ct, tone), 1)

fallback_templates_without_an_entry ==
         {<<"Product Description", "Professional", "English">>}
    \cup {<<"Product Description", "Playful", language>> : language \in {"English", "French"}}
    \cup {<<"Product Description", "Luxury", language>> : language \in {"English", "French"}}
    \cup {<<"Product Description", "Casual", language>> : language \in {"English", "French"}}
    \cup {<<"Social Post", "Professional", language>> : language \in {"English", "French"}}
    \cup {<<"Social Post", "Playful", language>> : language \in {"English", "French"}}
    \cup {<<"Social Post", "Luxury", language>> : language \in {"English", "French"}}
    \cup {<<"Social Post", "Casual", language>> : language \in {"English", "French"}}
    \cup {<<"Email", "Professional", language>> : language \in {"English", "French"}}
    \cup {<<"Email", "Playful", language>> : language \in {"English", "French"}}
    \cup {<<"Email", "Luxury", language>> : language \in {"English", "French"}}
    \cup {<<"Email", "Casual", language>> : language \in {"English", "French"}}

\* the keys of the dict fallback_templates, lines 151-206
fallback_templates ==
         {<<"Product Description", "Professional", language>> : language \in {"English", "French"}}
    \cup {<<"Product Description", "Playful", language>> : language \in {"English", "French"}}
    \cup {<<"Product Description", "Luxury", language>> : language \in {"English", "French"}}
    \cup {<<"Product Description", "Casual", language>> : language \in {"English", "French"}}
    \cup {<<"Social Post", "Professional", language>> : language \in {"English", "French"}}
    \cup {<<"Social Post", "Playful", language>> : language \in {"English", "French"}}
    \cup {<<"Social Post", "Luxury", language>> : language \in {"English", "French"}}
    \cup {<<"Social Post", "Casual", language>> : language \in {"English", "French"}}
    \cup {<<"Email", "Professional", language>> : language \in {"English", "French"}}
    \cup {<<"Email", "Playful", language>> : language \in {"English", "French"}}
    \cup {<<"Email", "Luxury", language>> : language \in {"English", "French"}}
    \cup {<<"Email", "Casual", language>> : language \in {"English", "French"}}

FirstMissing(product_data) ==
    LET miss == {i \in 1..Len(RequiredFields) : RequiredFields[i] \notin DOMAIN product_data}
    IN  IF miss = {} THEN 0 ELSE CHOOSE i \in miss : \A j \in miss : i <= j

_generate_fallback_content(product_data, content_type, tone, language) ==
    IF FirstMissing(product_data) # 0
    THEN Raise(KeyError(RequiredFields[FirstMissing(product_data)]))
    ELSE LET e == TableLookup(fallback_templates, content_type, tone, language)
         IN  IF e.raised THEN e
             ELSE Value(PyStr(FallbackEntry(product_data, content_type, tone, language)))

-----------------------------------------------------------------------------
(* ContentGenerator.generate_content *)

TimeSavedPerGeneration == 30
CostSavedPerGeneration == 12

StatKeys == {"total_generations", "total_time_saved", "total_cost_saved"}

\* __init__: self.generation_stats
InitialStats ==
    [total_generations |-> 0, total_time_saved |-> 0, total_cost_saved |-> 0]

\* what self.client.text_generation can do: return a str, return None, raise
\* StopIteration, raise any other Exception
RaisedOutcomes == {[kind |-> "StopIteration"], [kind |-> "Exception"]}

ReturnedOutcomes(strs) ==
    {[kind |-> "return", value |-> v] : v \in {PyNone} \cup {PyStr(s) : s \in strs}}

NotCalled == [kind |-> "not called", calls |-> 0]

\* lines 49-57: the template lookup, then the keyword arguments of format in order
PreparePrompt(product_data, content_type, tone, language) ==
    LET t == get_prompt_template(content_type, tone, language)
    IN  IF t.raised THEN t
        ELSE IF FirstMissing(product_data) # 0
        THEN Raise(KeyError(RequiredFields[FirstMissing(product_data)]))
        ELSE Value(FormatPrompt(t.value,
                                product_data["Product Name"],
                                product_data["Category"],
                                product_data["Features/Attributes"],
                                product_data["Target Audience"]))

FallbackInEnglish(o, product_data, content_type, tone, language) ==
    IF o.kind = "return" THEN [res |-> Value(o.value), st |-> <<>>]
    ELSE [res |-> _generate_fallback_content(product_data, content_type, tone, "English"),
          st |-> IF o.kind = "Exception" THEN <<"warning: API temporarily unavailable">> ELSE <<>>]

\* lines 63-76: the remote call and its two except clauses
RemoteResponse(o, product_data, content_type, tone, language) ==
    IF o.kind = "return" THEN [res |-> Value(o.value), st |-> <<>>]
    ELSE IF o.kind = "StopIteration"
    THEN [res |-> _generate_fallback_content(product_data, content_type, tone, language),
          st |-> <<>>]
    ELSE [res |-> _generate_fallback_content(product_data, content_type, tone, language),
          st |-> <<"warning: API temporarily unavailable">>]

UpdateTimeTwice(stats) ==
    [total_generations |-> stats.total_generations + 1,
     total_time_saved |-> stats.total_time_saved + TimeSavedPerGeneration + TimeSavedPerGeneration,
     total_cost_saved |-> stats.total_cost_saved + CostSavedPerGeneration]

UpdateCountOnly(stats) ==
    [total_generations |-> stats.total_generations + 1,
     total_time_saved |-> stats.total_time_saved,
     total_cost_saved |-> stats.total_cost_saved]

UpdateWithoutCost(stats) ==
    [total_generations |-> stats.total_generations + 1,
     total_time_saved |-> stats.total_time_saved + TimeSavedPerGeneration,
     total_cost_saved |-> stats.total_cost_saved]

\* lines 81-83
UpdateStatistics(stats) ==
    [total_generations |-> stats.total_generations + 1,
     total_time_saved |-> stats.total_time_saved + TimeSavedPerGeneration,
     total_cost_saved |-> stats.total_cost_saved + CostSavedPerGeneration]

MetadataInEnglish(product_data, content_type, tone, language) ==
    [product_name |-> product_data["Product Name"],
     content_type |-> content_type,
     tone |-> tone,
     language |-> "English"]

\* lines 92-98; the timestamp is the clock's and is left out
Metadata(product_data, content_type, tone, language) ==
    [product_name |-> product_data["Product Name"],
     content_type |-> content_type,
     tone |-> tone,
     language |-> language]

\* lines 88-99: response.strip() is evaluated first and fails on None
NormalResult(response, recs, product_data, content_type, tone, language) ==
    IF response.type # "str" THEN Raise(AttributeErrorStrip)
    ELSE Value([content |-> strip(response.s),
                generation_time |-> "measured",
                recommendations |-> recs,
                metadata |-> Metadata(product_data, content_type, tone, language)])

\* line 104
ApologyText == <<Msg("Sorry, there was an error generating content. Please try again.")>>

ErrorReraised(e, product_data, content_type, tone, language) == Raise(e)

\* lines 103-115: the result built by the outer except clause
ErrorResult(e, product_data, content_type, tone, language) ==
    IF "Product Name" \notin DOMAIN product_data
    THEN Raise(KeyError("Product Name"))
    ELSE Value([content |-> ApologyText,
                generation_time |-> "zero",
                recommendations |-> <<Msg("Please check your internet connection and try again.")>>,
                metadata |-> [product_name |-> product_data["Product Name"],
                              content_type |-> content_type,
                              tone |-> tone,
                              language |-> language,
                              error |-> StrOfError(e)]])

RemoteCalledFirst(prompt, o) == [kind |-> o.kind, calls |-> 1]

RemoteRetried(prompt, o) ==
    IF prompt.raised THEN NotCalled
    ELSE [kind |-> o.kind, calls |-> IF o.kind = "return" THEN 1 ELSE 2]

\* line 64 stands after lines 49-57: no remote call once the prompt has failed
RemoteCallMade(prompt, o) ==
    IF prompt.raised THEN NotCalled ELSE [kind |-> o.kind, calls |-> 1]

\* lines 80-99, r being the response and the messages of lines 63-76
AfterResponse(r, called, updated, recs, product_data, content_type, tone, language) ==
    IF recs.raised
    THEN [res |-> recs, stats |-> updated, remote |-> called, st |-> r.st]
    ELSE [res |-> NormalResult(r.res.value, recs.value, product_data,
                               content_type, tone, language),
          stats |-> updated, remote |-> called, st |-> r.st]

\* lines 62-99, r being the response and the messages of lines 63-76
AfterRemoteCall(r, called, stats, product_data, content_type, tone, language) ==
    IF r.res.raised
    THEN [res |-> r.res, stats |-> stats, remote |-> called, st |-> r.st]
    ELSE AfterResponse(r, called, UpdateStatistics(stats),
                       get_recommendations(content_type, tone),
                       product_data, content_type, tone, language)

\* lines 59-99, prompt being the outcome of lines 49-57
AfterPrompt(prompt, stats, product_data, content_type, tone, language, o) ==
    IF prompt.raised
    THEN [res |-> prompt, stats |-> stats, remote |-> RemoteCallMade(prompt, o), st |-> <<>>]
    ELSE AfterRemoteCall(RemoteResponse(o, product_data, content_type, tone, language),
                         RemoteCallMade(prompt, o),
                         stats, product_data, content_type, tone, language)

\* lines 47-99: the body of the try; o is what the remote call does if it is reached
TryBlock(stats, product_data, content_type, tone, language, o) ==
    AfterPrompt(PreparePrompt(product_data, content_type, tone, language),
                stats, product_data, content_type, tone, language, o)

\* lines 101-115: the outer except clause, body being the outcome of the try
OuterExcept(body, product_data, content_type, tone, language) ==
    IF ~body.res.raised THEN body
    ELSE [res |-> ErrorResult(body.res.exc, product_data, content_type, tone, language),
          stats |-> body.stats,
          remote |-> body.remote,
          st |-> Append(body.st, "error: Error generating content")]

\* lines 47-115: the whole call
GenerateContentRun(stats, product_data, content_type, tone, language, o) ==
    OuterExcept(TryBlock(stats, product_data, content_type, tone, language, o),
                product_data, content_type, tone, language)

-----------------------------------------------------------------------------
(* ContentGenerator.get_generation_stats, calculate_kpis *)

SameDict(h, ref) == [heap |-> h, ref |-> ref]

\* dict.copy(): a new dict object with the same items
DictCopy(h, ref) == [heap |-> ("copy" :> h[ref]) @@ h, ref |-> "copy"]

GetGenerationStatsCounting(h) ==
    DictCopy([h EXCEPT !["stats"] = UpdateStatistics(h["stats"])], "stats")

\* line 119
GetGenerationStats(h) == DictCopy(h, "stats")

Max(a, b) == IF a >= b THEN a ELSE b

RoundToWhole(num, den) == 10 * ((2 * num + den) \div (2 * den))

\* round(num / den, 1) in tenths, for num >= 0 and den > 0: the nearest tenth,
\* a tie going to the even one
RoundTenths(num, den) ==
    LET q == (10 * num) \div den
        r == (10 * num) % den
    IN  IF 2 * r < den THEN q
        ELSE IF 2 * r > den THEN q + 1
        ELSE IF q % 2 = 0 THEN q ELSE q + 1

\* lines 123-130, on the copy get_generation_stats returns; the two rounded
\* values are in tenths
CalculateKpis(h) ==
    LET got == GetGenerationStats(h)
        stats == got.heap[got.ref]
    IN  [time_saved_hours |-> RoundTenths(stats.total_time_saved, 60),
         cost_saved_usd |-> stats.total_cost_saved,
         generations_count |-> stats.total_generations,
         avg_time_per_generation |->
             RoundTenths(stats.total_time_saved, Max(stats.total_generations, 1))]

-----------------------------------------------------------------------------
(* src/utils/visualization.py: create_roi_calculation *)
(* Money is held in hundredths of a currency unit, hours in tenths; the    *)
(* arithmetic is that of the decimal numbers, without the rounding error   *)
(* of the floats.                                                          *)

\* line 195, per hour
hourly_writer_rate == 45

\* line 196: 0.08, in hundredths
ai_cost_per_generation == 8

RoiDivisorUnguarded(ai_cost) == ai_cost

\* line 207: max(ai_cost, 1), in hundredths
RoiDivisor(ai_cost) == Max(ai_cost, 100)

\* lines 198-215; roi_percentage is the quotient num / den
create_roi(kpis) ==
    LET manual_cost == kpis.time_saved_hours * hourly_writer_rate * 10
        ai_cost == kpis.generations_count * ai_cost_per_generation
        net_savings == manual_cost - ai_cost
    IN  [manual_cost |-> manual_cost,
         ai_cost |-> ai_cost,
         net_savings |-> net_savings,
         roi_percentage |-> [num |-> net_savings * 100, den |-> RoiDivisor(ai_cost)],
         cost_per_content |-> ai_cost_per_generation]

-----------------------------------------------------------------------------
(* ContentGenerator.export_content *)

OSError == [exc |-> "OSError", arg |-> "io"]

\* what the file system does: os.makedirs fails (line 226), open fails (line
\* 230), write or close fails (lines 231), or all succeed
IoOutcomes == {"ok", "makedirs fails", "open fails", "write fails"}

\* A path is a sequence of names and separators "/".

\* lines 221-223: not filename holds of None and of the empty name
ExportFilename(filename, clock) ==
    IF filename.type = "NoneType" \/ filename.s = <<>>
    THEN <<"brandboost_content_", ToString(clock), ".txt">>
    ELSE filename.s

\* os.path.join(a, b): b alone when b is absolute
os_path_join(a, b) ==
    IF b # <<>> /\ Head(b) = "/" THEN b ELSE <<a, "/">> \o b

ExportReturnPathAnyway(io, filepath) == Value(PyStr(filepath))

\* lines 230-236: the path after the with block, None from the except clause
ExportReturn(io, filepath) ==
    IF io = "ok" THEN Value(PyStr(filepath)) ELSE Value(PyNone)

\* lines 221-236; io is what the file system does
ExportContent(f, content, filename, clock, io) ==
    LET filepath == os_path_join("reports", ExportFilename(filename, clock))
    IN  IF io = "makedirs fails"
        THEN [fs |-> f, res |-> Raise(OSError), st |-> <<>>]
        ELSE IF io = "open fails"
        THEN [fs |-> [f EXCEPT !.reports = TRUE],
              res |-> ExportReturn(io, filepath),
              st |-> <<"error: Error exporting content">>]
        ELSE IF io = "write fails"
        THEN [fs |-> [reports |-> TRUE, files |-> (filepath :> <<>>) @@ f.files],
              res |-> ExportReturn(io, filepath),
              st |-> <<"error: Error exporting content">>]
        ELSE [fs |-> [reports |-> TRUE, files |-> (filepath :> content) @@ f.files],
              res |-> ExportReturn(io, filepath),
              st |-> <<>>]

-----------------------------------------------------------------------------
(* The inputs *)

Text(chars) == [i \in 1..Len(chars) |-> Ch(chars[i])]

Product(name, category, features, audience) ==
    [f \in FieldSet |->
        IF f = "Product Name" THEN Text(name)
        ELSE IF f = "Category" THEN Text(category)
        ELSE IF f = "Features/Attributes" THEN Text(features)
        ELSE Text(audience)]

Without(product_data, f) == [g \in (DOMAIN product_data) \ {f} |-> product_data[g]]

\* a row of the catalog: the product record with its ProductID column
WithId(product_data, id) == ("ProductID" :> Text(id)) @@ product_data

FullProducts ==
    {WithId(Product(<<"n">>, <<"c">>, <<"f", ";", "g">>, <<"t">>), <<"1">>),
     WithId(Product(<<" ", "n", ";">>, <<"c", " ">>, <<";", "f", " ">>, <<" ", "t">>), <<"2">>)}

\* the complete records, and the first with one required attribute missing
Products ==
    FullProducts
    \cup {Without(Product(<<"n">>, <<"c">>, <<"f", ";", "g">>, <<"t">>), f) : f \in FieldSet}

\* the closed enumerations, and one value outside each
AnyContentTypes == ContentTypes \cup {"Blog Post"}
AnyTones == Tones \cup {"Formal"}
AnyLanguages == Languages \cup {"German"}

\* what the remote call can return as text
ResponseTexts == StrsUpTo({Ch("x"), Ch(" ")}, MaxRespLen)

NoArgs == [none |-> TRUE]

\* the threads that may call generate_content on the one generator
Threads == 1..NumThreads

\* a thread that has not called generate_content yet
NotStarted == [pc |-> "not started", key |-> 1, loaded |-> 0]

\* no script run yet
NoRun == [stopped |-> "not run", generate_called |-> FALSE, catalog |-> <<>>, st |-> <<>>]

\* st.session_state before the first script run: no key is set
NoSession ==
    [keys |-> {}, products |-> <<>>, generated_content |-> Value(PyNone), run |-> NoRun]

-----------------------------------------------------------------------------
(* The operations *)

Init ==
    /\ heap = ("stats" :> InitialStats)
    /\ held = "none"
    /\ lastOp = "__init__"
    /\ args = NoArgs
    /\ remote = NotCalled
    /\ ret = Value(PyNone)
    /\ st = <<>>
    /\ fs = [reports |-> FALSE, files |-> <<>>]
    /\ attempts = 0
    /\ threads = [t \in Threads |-> NotStarted]
    /\ session = NoSession

\* one call of generate_content with any product, selectors and remote behaviour
generate_content(limit, products, ctypes, tones, langs, texts) ==
    /\ heap["stats"].total_generations < limit
    /\ attempts < limit
    /\ \E product_data \in products, content_type \in ctypes, tone \in tones, language \in langs :
        \E o \in IF PreparePrompt(product_data, content_type, tone, language).raised
                 THEN {NotCalled}
                 ELSE RaisedOutcomes \cup ReturnedOutcomes(texts) :
            \E run \in {GenerateContentRun(heap["stats"], product_data, content_type,
                                          tone, language, o)} :
                /\ heap' = [heap EXCEPT !["stats"] = run.stats]
                /\ lastOp' = "generate_content"
                /\ args' = [product_data |-> product_data, content_type |-> content_type,
                            tone |-> tone, language |-> language, response |-> o]
                /\ remote' = run.remote
                /\ ret' = run.res
                /\ st' = run.st
                /\ attempts' = attempts + run.remote.calls
                /\ UNCHANGED <<held, fs, threads, session>>

\* the caller asks for the statistics and keeps what it gets
get_generation_stats ==
    LET got == GetGenerationStats(heap)
    IN  /\ heap' = got.heap
        /\ held' = got.ref
        /\ lastOp' = "get_generation_stats"
        /\ args' = NoArgs
        /\ ret' = Value(got.ref)
        /\ st' = <<>>
        /\ UNCHANGED <<remote, fs, attempts, threads, session>>

\* the caller writes into the dict it holds
ModifySnapshot ==
    /\ held # "none"
    /\ \E k \in StatKeys :
        /\ heap' = [heap EXCEPT ![held][k] = -1]
        /\ lastOp' = "modify snapshot"
        /\ args' = [key |-> k]
        /\ ret' = Value(PyNone)
        /\ st' = <<>>
        /\ UNCHANGED <<held, remote, fs, attempts, threads, session>>

calculate_kpis ==
    /\ lastOp' = "calculate_kpis"
    /\ args' = NoArgs
    /\ ret' = Value(CalculateKpis(heap))
    /\ st' = <<>>
    /\ UNCHANGED <<heap, held, remote, fs, attempts, threads, session>>

\* src/app.py:290-294, and the same for the counters of a generator that has
\* made n generations
create_roi_calculation(counts) ==
    \E n \in counts :
        \E kpis \in {CalculateKpis(heap),
                     CalculateKpis("stats" :> [total_generations |-> n,
                                               total_time_saved |-> n * TimeSavedPerGeneration,
                                               total_cost_saved |-> n * CostSavedPerGeneration])} :
            /\ lastOp' = "create_roi_calculation"
            /\ args' = [kpis |-> kpis]
            /\ ret' = Value(create_roi(kpis))
            /\ st' = <<>>
            /\ UNCHANGED <<heap, held, remote, fs, attempts, threads, session>>

export_content(contents, filenames, clocks) ==
    \E content \in contents, filename \in filenames, clock \in clocks, io \in IoOutcomes :
        LET run == ExportContent(fs, content, filename, clock, io)
        IN  /\ fs' = run.fs
            /\ lastOp' = "export_content"
            /\ args' = [content |-> content, filename |-> filename, clock |-> clock, io |-> io]
            /\ ret' = run.res
            /\ st' = run.st
            /\ UNCHANGED <<heap, held, remote, attempts, threads, session>>

-----------------------------------------------------------------------------
(* Spec: generate_content over every product, selector and remote behaviour *)

Next == generate_content(MaxCalls, Products, AnyContentTypes, AnyTones, AnyLanguages, ResponseTexts)

Spec == Init /\ [][Next]_vars

-----------------------------------------------------------------------------
(* SpecStats: every operation of the generator, interleaved, with the caller *)
(* keeping and writing the statistics it was given                          *)

StatsProducts ==
    {Product(<<"n">>, <<"c">>, <<"f", ";", "g">>, <<"t">>),
     Without(Product(<<"n">>, <<"c">>, <<"f", ";", "g">>, <<"t">>), "Category")}

StatsTexts == {<<>>, <<Ch("x")>>}

\* the selections, call counts and file names of the calls below
StatsContentTypes == {"Blog Post", "Email"}

RoiCounts == {13, 25}

StatsFilenames == {PyNone, PyStr(<<"custom.txt">>)}

NextStats ==
    \/ generate_content(MaxGenerations, StatsProducts, StatsContentTypes, {"Casual"}, {"French"},
                        StatsTexts)
    \/ get_generation_stats
    \/ ModifySnapshot
    \/ calculate_kpis
    \/ create_roi_calculation(RoiCounts)
    \/ export_content({<<Ch("h")>>}, StatsFilenames, {1})

SpecStats == Init /\ [][NextStats]_vars

-----------------------------------------------------------------------------
(* Claims about the result of one generate_content call (Spec) *)

IsCall == lastOp = "generate_content"

RemoteRaised == IsCall /\ remote.kind \in {"StopIteration", "Exception"}

RemoteReturned == IsCall /\ remote.kind = "return"

RequestedFallback ==
    FallbackEntry(args.product_data, args.content_type, args.tone, args.language)

HasErrorIndicator(result) ==
    /\ "error" \in DOMAIN result.metadata
    /\ result.metadata.error # <<>>

\* c is s without its leading and trailing blanks
IsStrippedOf(c, s) ==
    /\ \E i, j \in 0..Len(s) :
        /\ i + j <= Len(s)
        /\ c = SubSeq(s, i + 1, Len(s) - j)
        /\ \A k \in 1..i : IsSpace(s[k])
        /\ \A k \in (Len(s) - j + 1)..Len(s) : IsSpace(s[k])
    /\ c # <<>> => ~IsSpace(c[1]) /\ ~IsSpace(c[Len(c)])

\* C1: when the remote call raises, generate_content returns (does not raise) a
\* result whose content is the fallback table entry of the requested content
\* type, tone and language with the product's four attributes substituted.
C1_FallbackOnRemoteError ==
    RemoteRaised => ~ret.raised /\ ret.value.content = RequestedFallback

C1_Witness ==
    /\ RemoteRaised
    /\ remote.kind = "Exception"
    /\ args.language = "French"
    /\ args.tone = "Playful"
    /\ args.product_data["Product Name"] = Text(<<" ", "n", ";">>)
    /\ ~ret.raised
    /\ ret.value.content = RequestedFallback

\* C2: whenever generate_content returns fallback text because the remote call
\* failed, the metadata of the result holds a non-empty error indicator.
C2_ErrorIndicatorOnFallback ==
    (RemoteRaised /\ ~ret.raised) => HasErrorIndicator(ret.value)

\* C3 as stated: when the remote call returns a non-empty string, the content
\* of the result is the returned text itself and the metadata holds no error
\* indicator.
C3_ContentIsRemoteText ==
    (RemoteReturned /\ args.response.value.type = "str" /\ args.response.value.s # <<>>)
        => /\ ~ret.raised
           /\ ret.value.content = args.response.value.s
           /\ "error" \notin DOMAIN ret.value.metadata

\* C3 as amended: when the remote call returns a non-empty string, the content
\* of the result is the returned text without its leading and trailing
\* whitespace (the returned text itself when it has none), and the metadata
\* holds no error indicator.
C3_ContentIsStrippedRemoteText ==
    (RemoteReturned /\ args.response.value.type = "str" /\ args.response.value.s # <<>>)
        => /\ ~ret.raised
           /\ IsStrippedOf(ret.value.content, args.response.value.s)
           /\ (~IsSpace(Head(args.response.value.s))
               /\ ~IsSpace(args.response.value.s[Len(args.response.value.s)])
               => ret.value.content = args.response.value.s)
           /\ "error" \notin DOMAIN ret.value.metadata

C3_Witness ==
    /\ RemoteReturned
    /\ args.response.value.type = "str"
    /\ args.response.value.s = <<Ch(" "), Ch("x")>>
    /\ ~ret.raised
    /\ ret.value.content = <<Ch("x")>>

\* C4: when the remote call returns the empty string or None, generate_content
\* returns the fallback table entry as content, as it does after a raised error.
C4_EmptyOrAbsentIsFailure ==
    (RemoteReturned
     /\ (args.response.value.type = "NoneType" \/ args.response.value.s = <<>>))
        => ~ret.raised /\ ret.value.content = RequestedFallback

\* C8: a product record that lacks one of the four required attributes makes
\* generate_content raise a missing-field error to the caller, whichever of
\* the four is missing.
C8_MissingFieldRaises ==
    (IsCall /\ FirstMissing(args.product_data) # 0)
        => ret.raised /\ ret.exc.exc = "KeyError"

\* C9: in a generate_content call whose product record lacks a required
\* attribute the remote generation dependency is not invoked.
C9_NoRemoteCallOnMissingField ==
    (IsCall /\ FirstMissing(args.product_data) # 0) => remote.calls = 0

C9_Witness ==
    /\ IsCall
    /\ FirstMissing(args.product_data) = 4
    /\ ~get_prompt_template(args.content_type, args.tone, args.language).raised
    /\ remote.calls = 0
    /\ ~ret.raised

\* C10: for a product record with all four required attributes
\* generate_content does not raise; when the lookup of a selector or the
\* handling of the response fails inside it, the result is the error-result:
\* the placeholder content and an error indicator in the metadata.
C10_NoRaiseForFullProduct ==
    (IsCall /\ FirstMissing(args.product_data) = 0)
        => /\ ~ret.raised
           /\ (get_prompt_template(args.content_type, args.tone, args.language).raised
               \/ (RemoteReturned /\ args.response.value.type = "NoneType"))
               => /\ ret.value.content = ApologyText
                  /\ HasErrorIndicator(ret.value)

C10_Witness ==
    /\ RemoteReturned
    /\ args.response.value.type = "NoneType"
    /\ ~ret.raised
    /\ ret.value.content = ApologyText
    /\ HasErrorIndicator(ret.value)

-----------------------------------------------------------------------------
(* Claims about the statistics across operations (SpecStats) *)

GeneratorStats == heap["stats"]

\* C5: every generate_content call that reaches the remote attempt, whether
\* the remote call succeeds or fails, adds exactly 1 to total_generations,
\* 30 to total_time_saved and 12 to total_cost_saved: after N such calls on a
\* fresh generator the counters, and what get_generation_stats reports, are
\* N, 30 * N and 12 * N.
C5_CountersAfterNCalls ==
    /\ GeneratorStats.total_generations = attempts
    /\ GeneratorStats.total_time_saved = 30 * attempts
    /\ GeneratorStats.total_cost_saved = 12 * attempts
    /\ lastOp = "get_generation_stats"
        => heap[ret.value] = [total_generations |-> attempts,
                              total_time_saved |-> 30 * attempts,
                              total_cost_saved |-> 12 * attempts]

C5_Witness ==
    /\ lastOp = "get_generation_stats"
    /\ attempts = 3
    /\ heap[ret.value].total_generations = 3
    /\ heap[ret.value].total_time_saved = 90

\* C6: across generate_content, get_generation_stats, calculate_kpis and
\* export_content (and the caller's writes into what it was given) no counter
\* of the generator decreases, and the counters change only in a
\* generate_content call, by one increment each.
C6_CountersMonotone ==
    [][/\ \A k \in StatKeys : heap'["stats"][k] >= heap["stats"][k]
       /\ heap'["stats"] # heap["stats"]
            => /\ lastOp' = "generate_content"
               /\ heap'["stats"].total_generations = heap["stats"].total_generations + 1
               /\ heap'["stats"].total_time_saved = heap["stats"].total_time_saved + 30
               /\ heap'["stats"].total_cost_saved = heap["stats"].total_cost_saved + 12]_vars

C6_Witness ==
    /\ lastOp = "export_content"
    /\ ~ret.raised
    /\ ret.value.type = "str"
    /\ held = "copy"
    /\ heap["copy"].total_time_saved = -1
    /\ GeneratorStats.total_generations = 2
    /\ GeneratorStats.total_time_saved = 60

\* C7: get_generation_stats returns a snapshot: it holds the counters of the
\* moment, a write of the caller into it leaves the generator's counters
\* unchanged, and a later generate_content call leaves it unchanged.
C7_StatsSnapshot ==
    [][/\ lastOp' = "get_generation_stats"
            => heap'[held'] = heap["stats"] /\ heap'["stats"] = heap["stats"]
       /\ lastOp' = "modify snapshot" => heap'["stats"] = heap["stats"]
       /\ (lastOp' = "generate_content" /\ held # "none")
            => heap'[held] = heap[held]]_vars

C7_Witness ==
    /\ lastOp = "generate_content"
    /\ held = "copy"
    /\ heap["copy"] = [total_generations |-> -1, total_time_saved |-> 30,
                       total_cost_saved |-> 12]
    /\ GeneratorStats.total_generations = 3

-----------------------------------------------------------------------------
(* SpecTables: the three lookups as pure functions of their arguments *)

\* product records with all four attributes, some of them the empty string
TableProducts ==
    FullProducts
    \cup {Product(<<>>, <<>>, <<>>, <<>>), Product(<<>>, <<"c">>, <<";">>, <<"t">>)}

\* lines 49-57 as a function: the prompt as a str, or the KeyError
InterpolatedPrompt(product_data, content_type, tone, language) ==
    IF PreparePrompt(product_data, content_type, tone, language).raised
    THEN PreparePrompt(product_data, content_type, tone, language)
    ELSE Value(PyStr(PreparePrompt(product_data, content_type, tone, language).value))

\* lines 49-57: the template of the triple with the product interpolated
prompt_template ==
    \E product_data \in TableProducts, content_type \in AnyContentTypes,
       tone \in AnyTones, language \in AnyLanguages :
        /\ lastOp' = "get_prompt_template"
        /\ args' = [product_data |-> product_data, content_type |-> content_type,
                    tone |-> tone, language |-> language]
        /\ ret' = InterpolatedPrompt(product_data, content_type, tone, language)
        /\ st' = <<>>
        /\ UNCHANGED <<heap, held, remote, fs, attempts, threads, session>>

fallback_content ==
    \E product_data \in TableProducts, content_type \in AnyContentTypes,
       tone \in AnyTones, language \in AnyLanguages :
        /\ lastOp' = "_generate_fallback_content"
        /\ args' = [product_data |-> product_data, content_type |-> content_type,
                    tone |-> tone, language |-> language]
        /\ ret' = _generate_fallback_content(product_data, content_type, tone, language)
        /\ st' = <<>>
        /\ UNCHANGED <<heap, held, remote, fs, attempts, threads, session>>

recommendation ==
    \E content_type \in AnyContentTypes, tone \in AnyTones :
        /\ lastOp' = "get_recommendations"
        /\ args' = [content_type |-> content_type, tone |-> tone]
        /\ ret' = get_recommendations(content_type, tone)
        /\ st' = <<>>
        /\ UNCHANGED <<heap, held, remote, fs, attempts, threads, session>>

NextTables == prompt_template \/ fallback_content \/ recommendation

SpecTables == Init /\ [][NextTables]_vars

IsTripleLookup == lastOp \in {"get_prompt_template", "_generate_fallback_content"}

InEnumerations ==
    /\ args.content_type \in ContentTypes
    /\ args.tone \in Tones
    /\ lastOp # "get_recommendations" => args.language \in Languages

\* sub occurs in text as it stands
Contains(text, sub) ==
    \E i \in 0..(Len(text) - Len(sub)) : SubSeq(text, i + 1, i + Len(sub)) = sub

\* C11: the three tables are total over the closed enumerations: each of the
\* 24 (content type, tone, language) triples has exactly one entry in the
\* prompt table and in the fallback table and its lookup does not fail, and
\* for each of the 12 (content type, tone) pairs get_recommendations returns a
\* non-empty string; the tables hold no further entry.
C11_TablesTotal ==
    /\ Cardinality(templates) = 24
    /\ Cardinality(fallback_templates) = 24
    /\ Cardinality(recommendations) = 12
    /\ (IsTripleLookup /\ InEnumerations) => ~ret.raised
    /\ (lastOp = "get_recommendations" /\ InEnumerations)
        => ~ret.raised /\ ret.value # <<>>

C11_Witness ==
    /\ lastOp = "_generate_fallback_content"
    /\ args.content_type = "Product Description"
    /\ args.tone = "Professional"
    /\ args.language = "French"
    /\ ~ret.raised

\* C12: for each of the 24 combinations and every product record, one whose
\* attributes are empty strings included, the interpolated prompt and the
\* fallback content are non-empty strings that hold the product name as it
\* stands.
C12_NonEmptyWithProductName ==
    (IsTripleLookup /\ InEnumerations)
        => /\ ~ret.raised
           /\ ret.value.type = "str"
           /\ ret.value.s # <<>>
           /\ Contains(ret.value.s, args.product_data["Product Name"])

C12_Witness ==
    /\ lastOp = "_generate_fallback_content"
    /\ InEnumerations
    /\ args.product_data["Product Name"] = Text(<<" ", "n", ";">>)
    /\ args.product_data["Features/Attributes"] = Text(<<";", "f", " ">>)
    /\ ~ret.raised
    /\ Contains(ret.value.s, Text(<<" ", "n", ";">>))
    /\ Contains(ret.value.s, Text(<<",", " ", "f", " ">>))

-----------------------------------------------------------------------------
(* Claims about calculate_kpis (SpecStats) *)

Abs(x) == IF x >= 0 THEN x ELSE 0 - x

\* C13: calculate_kpis derives its values from the generator's counters only:
\* time_saved_hours is total_time_saved / 60 to the nearest tenth,
\* generations_count is total_generations, cost_saved_usd is total_cost_saved
\* and avg_time_per_generation is total_time_saved / max(total_generations, 1);
\* with zero generations the average is 0 and nothing is raised.  (The two
\* rounded values are held in tenths.)
C13_KpisFromCounters ==
    lastOp = "calculate_kpis"
        => /\ ~ret.raised
           /\ 2 * Abs(60 * ret.value.time_saved_hours - 10 * GeneratorStats.total_time_saved) <= 60
           /\ ret.value.generations_count = GeneratorStats.total_generations
           /\ ret.value.cost_saved_usd = GeneratorStats.total_cost_saved
           /\ ret.value.avg_time_per_generation * Max(GeneratorStats.total_generations, 1)
                = 10 * GeneratorStats.total_time_saved
           /\ GeneratorStats.total_generations = 0 => ret.value.avg_time_per_generation = 0

C13_Witness ==
    /\ lastOp = "calculate_kpis"
    /\ held = "copy"
    /\ heap["copy"].total_time_saved = -1
    /\ GeneratorStats.total_generations = 1
    /\ ret.value.time_saved_hours = 5
    /\ ret.value.avg_time_per_generation = 300

C13_WitnessZeroGenerations ==
    /\ lastOp = "calculate_kpis"
    /\ GeneratorStats.total_generations = 0
    /\ ret.value.avg_time_per_generation = 0
    /\ ret.value.time_saved_hours = 0

\* C14: create_roi_calculation returns manual_cost = time_saved_hours * 45,
\* ai_cost = generations_count * 0.08, net_savings = manual_cost - ai_cost and
\* roi_percentage = net_savings / max(ai_cost, 1) * 100; its divisor is never
\* 0, and for the KPIs of a generator with zero generations ai_cost = 0 and
\* roi_percentage = 0.  (Money in hundredths, hours in tenths.)
C14_RoiFromKpis ==
    lastOp = "create_roi_calculation"
        => /\ ~ret.raised
           /\ 10 * ret.value.manual_cost = args.kpis.time_saved_hours * 45 * 100
           /\ ret.value.ai_cost = args.kpis.generations_count * 8
           /\ ret.value.net_savings = ret.value.manual_cost - ret.value.ai_cost
           /\ ret.value.roi_percentage.den > 0
           /\ ret.value.roi_percentage.den >= 100
           /\ ret.value.roi_percentage.den >= ret.value.ai_cost
           /\ ret.value.roi_percentage.den \in {100, ret.value.ai_cost}
           /\ ret.value.roi_percentage.num = ret.value.net_savings * 100
           /\ args.kpis.generations_count = 0
                => ret.value.ai_cost = 0 /\ ret.value.roi_percentage.num = 0

C14_Witness ==
    /\ lastOp = "create_roi_calculation"
    /\ args.kpis.generations_count = 0
    /\ args.kpis.time_saved_hours = 0
    /\ ret.value.ai_cost = 0
    /\ ret.value.roi_percentage = [num |-> 0, den |-> 100]

C14_WitnessCostAboveOne ==
    /\ lastOp = "create_roi_calculation"
    /\ args.kpis.generations_count = 25
    /\ ret.value.manual_cost = 56250
    /\ ret.value.ai_cost = 200
    /\ ret.value.roi_percentage = [num |-> 5605000, den |-> 200]

-----------------------------------------------------------------------------
(* SpecExport: export_content with any name and any behaviour of the file   *)
(* system, between generate_content calls                                   *)

ExportTexts == {<<Ch("h")>>, <<Ch(" "), Ch("h"), Ch(";"), Ch(" ")>>}

\* no name, the empty name, a plain name, an absolute path
ExportFilenames ==
    {PyNone, PyStr(<<>>), PyStr(<<"custom.txt">>), PyStr(<<"/", "tmp", "/", "abs.txt">>)}

\* a reading of int(time.time())
ExportClocks == {1700000000}

NextExport ==
    \/ generate_content(MaxCalls,
                        {Product(<<"n">>, <<"c">>, <<"f", ";", "g">>, <<"t">>)},
                        {"Email"}, {"Casual"}, {"French"}, {<<Ch("x")>>})
    \/ export_content(ExportTexts, ExportFilenames, ExportClocks)

SpecExport == Init /\ [][NextExport]_vars

IsExport == lastOp = "export_content"

\* the path names a file directly under the directory reports
IsUnderReports(path) ==
    /\ Len(path) >= 3
    /\ path[1] = "reports"
    /\ path[2] = "/"
    /\ \A i \in 3..Len(path) : path[i] \notin {"/", ".."}

\* C15: when the file system does not fail, export_content(text, filename)
\* leaves the directory reports in existence, writes a file under it whose
\* contents are exactly the text and returns the path of that file; without a
\* filename the name is brandboost_content_<unix timestamp>.txt.
C15_ExportWritesUnderReports ==
    (IsExport /\ args.io = "ok")
        => /\ ~ret.raised
           /\ ret.value.type = "str"
           /\ fs.reports
           /\ IsUnderReports(ret.value.s)
           /\ ret.value.s \in DOMAIN fs.files
           /\ fs.files[ret.value.s] = args.content
           /\ args.filename.type = "NoneType"
                => ret.value.s = <<"reports", "/">>
                                 \o <<"brandboost_content_", ToString(args.clock), ".txt">>

\* C15 for a filename without a directory part: what the claim says holds
C15_PlainNameExported ==
    (IsExport /\ args.io = "ok"
     /\ (args.filename.type = "NoneType" \/ Len(args.filename.s) <= 1))
        => /\ ~ret.raised
           /\ ret.value.type = "str"
           /\ fs.reports
           /\ IsUnderReports(ret.value.s)
           /\ ret.value.s \in DOMAIN fs.files
           /\ fs.files[ret.value.s] = args.content
           /\ args.filename.type = "NoneType"
                => ret.value.s = <<"reports", "/">>
                                 \o <<"brandboost_content_", ToString(args.clock), ".txt">>

\* C16: export_content either returns the path of a file it has written with
\* the given text, or signals the failure to its caller, by raising or by
\* returning None: it returns no path when the file system has failed, and
\* in both cases it leaves the three counters of the generator as they were.
C16_PathOnlyForWrittenFile ==
    [][lastOp' = "export_content"
        => /\ heap' = heap
           /\ args'.io # "ok" => (ret'.raised \/ ret'.value = PyNone)
           /\ (~ret'.raised /\ ret'.value # PyNone)
                => /\ ret'.value.type = "str"
                   /\ ret'.value.s \in DOMAIN fs'.files
                   /\ fs'.files[ret'.value.s] = args'.content]_vars

C16_Witness ==
    /\ IsExport
    /\ args.io = "write fails"
    /\ args.filename = PyStr(<<"custom.txt">>)
    /\ ret = Value(PyNone)
    /\ st # <<>>
    /\ fs.files[<<"reports", "/", "custom.txt">>] = <<>>
    /\ GeneratorStats.total_generations = 2

-----------------------------------------------------------------------------
(* Further claims about one generate_content call (Spec) *)

\* C17: a generate_content call invokes self.client.text_generation at most
\* once: a call that raised is not repeated, and the fallback content is
\* produced without a further call.
C17_AtMostOneRemoteCall ==
    IsCall => /\ remote.calls <= 1
              /\ RemoteRaised => remote.calls = 1

C17_Witness ==
    /\ RemoteRaised
    /\ remote.kind = "StopIteration"
    /\ remote.calls = 1
    /\ attempts = 2
    /\ ~ret.raised
    /\ ret.value.content = RequestedFallback

\* C18: every result generate_content returns for a complete product record
\* and a request within the enumerations carries as its recommendation the get_recommendations entry of
\* the requested content type and tone, whatever the language and whether the
\* content is the remote text or the fallback.
C18_RecommendationAttached ==
    (IsCall /\ ~ret.raised /\ FirstMissing(args.product_data) = 0
     /\ args.content_type \in ContentTypes /\ args.tone \in Tones /\ args.language \in Languages)
        => ret.value.recommendations = get_recommendations(args.content_type, args.tone).value

\* C18 where the response is a text or the remote call raised: the
\* recommendation is the entry of the pair
C18_RecommendationUnlessNone ==
    (IsCall /\ ~ret.raised /\ FirstMissing(args.product_data) = 0
     /\ args.content_type \in ContentTypes /\ args.tone \in Tones /\ args.language \in Languages
     /\ (RemoteRaised \/ (RemoteReturned /\ args.response.value.type = "str")))
        => ret.value.recommendations = get_recommendations(args.content_type, args.tone).value

-----------------------------------------------------------------------------
(* SpecConcurrent: generate_content called once by each of several threads  *)
(* on one generator.  Lines 81-83 are three statements d[k] += n, each a    *)
(* load of d[k] and a later store of the sum; the code takes no lock, and   *)
(* Python does not make the statement atomic, so the steps of the threads   *)
(* interleave in any order.                                                 *)

\* the counters in the order of lines 81-83, and what each statement adds
CounterOrder == <<"total_generations", "total_time_saved", "total_cost_saved">>

Increment(k) ==
    IF k = 1 THEN 1 ELSE IF k = 2 THEN TimeSavedPerGeneration ELSE CostSavedPerGeneration

\* lines 47-76: the prompt and the remote attempt, local to the call
thread_begin(t) ==
    /\ threads[t].pc = "not started"
    /\ threads' = [threads EXCEPT ![t] = [pc |-> "load", key |-> 1, loaded |-> 0]]
    /\ attempts' = attempts + 1
    /\ lastOp' = "generate_content"
    /\ UNCHANGED <<heap, held, args, remote, ret, st, fs, session>>

\* the load of self.generation_stats[k]
thread_load(t) ==
    /\ threads[t].pc = "load"
    /\ threads' = [threads EXCEPT ![t] =
                      [pc |-> "store", key |-> threads[t].key,
                       loaded |-> heap["stats"][CounterOrder[threads[t].key]]]]
    /\ UNCHANGED <<heap, held, lastOp, args, remote, ret, st, fs, attempts, session>>

\* the store of the sum into self.generation_stats[k]
thread_store(t) ==
    /\ threads[t].pc = "store"
    /\ heap' = [heap EXCEPT !["stats"][CounterOrder[threads[t].key]] =
                                threads[t].loaded + Increment(threads[t].key)]
    /\ threads' = [threads EXCEPT ![t] =
                      IF threads[t].key < Len(CounterOrder)
                      THEN [pc |-> "load", key |-> threads[t].key + 1, loaded |-> 0]
                      ELSE [pc |-> "updated", key |-> threads[t].key, loaded |-> 0]]
    /\ UNCHANGED <<held, lastOp, args, remote, ret, st, fs, attempts, session>>

\* lines 85-99: the recommendation and the return
thread_return(t) ==
    /\ threads[t].pc = "updated"
    /\ threads' = [threads EXCEPT ![t] = [pc |-> "returned", key |-> threads[t].key, loaded |-> 0]]
    /\ UNCHANGED <<heap, held, lastOp, args, remote, ret, st, fs, attempts, session>>

NextConcurrent ==
    \E t \in Threads :
        \/ thread_begin(t)
        \/ thread_load(t)
        \/ thread_store(t)
        \/ thread_return(t)

SpecConcurrent == Init /\ [][NextConcurrent]_vars

AllReturned == \A t \in Threads : threads[t].pc = "returned"

\* C19: the update of the counters is mutually exclusive: when the
\* generate_content calls of several threads interleave their loads and
\* stores of the counters no increment is lost, so that once the N calls have
\* returned total_generations = N and total_time_saved = 30 * N.
C19_NoLostIncrement ==
    AllReturned => /\ GeneratorStats.total_generations = NumThreads
                   /\ GeneratorStats.total_time_saved = 30 * NumThreads

-----------------------------------------------------------------------------
(* SpecApp: the script runs of src/app.py in one session, and load_products *)

\* what the file sample_data/products.csv holds when it is read
CatalogRows ==
    {<<>>,
     <<WithId(Product(<<"n">>, <<"c">>, <<"f", ";", "g">>, <<"t">>), <<"1">>)>>,
     <<WithId(Product(<<"n">>, <<"c">>, <<"f", ";", "g">>, <<"t">>), <<"1">>),
       WithId(Product(<<" ", "n", ";">>, <<"c", " ">>, <<";", "f", " ">>, <<" ", "t">>), <<"2">>)>>}

\* what pd.read_csv does: it raises (no such file, no parsable content) or
\* gives the rows
ReadOutcomes ==
    {[kind |-> "FileNotFoundError", rows |-> <<>>], [kind |-> "ParserError", rows |-> <<>>]}
    \cup {[kind |-> "rows", rows |-> r] : r \in CatalogRows}

LoadProductsSampleOnError(read) ==
    IF read.kind # "rows"
    THEN [res |-> <<Product(<<"n">>, <<"c">>, <<"f", ";", "g">>, <<"t">>)>>,
          st |-> <<"error: Error loading products">>]
    ELSE [res |-> read.rows, st |-> <<>>]

\* generator.py lines 239-256
LoadProducts(read) ==
    IF read.kind # "rows"
    THEN [res |-> <<>>, st |-> <<"error: Error loading products">>]
    ELSE [res |-> read.rows, st |-> <<>>]

\* app.py lines 143-152: each key is set only if it is absent
InitializeSessionState(sess) ==
    [keys |-> {"generator", "generated_content", "products"},
     products |-> IF "products" \in sess.keys THEN sess.products ELSE <<>>,
     generated_content |-> IF "generated_content" \in sess.keys
                           THEN sess.generated_content ELSE Value(PyNone),
     run |-> sess.run]

SessionGeneratorRecreated(sess, h) == ("stats" :> InitialStats) @@ h

\* app.py lines 145-146: the heap with the generator of the session, a new
\* ContentGenerator only if the session has none
SessionGenerator(sess, h) ==
    IF "generator" \in sess.keys THEN h ELSE ("stats" :> InitialStats) @@ h

\* app.py lines 253-255: the notice after a generation, result being what
\* generate_content returned
FallbackNotice(result) ==
    IF ~result.raised /\ "error" \in DOMAIN result.value.metadata
    THEN <<"info: Using fallback content generation due to API limitations">>
    ELSE <<>>

\* app.py lines 154-162; exists is what os.path.exists answers
LoadProductData(sess, exists, read) ==
    IF exists
    THEN [ok |-> TRUE,
          session |-> [sess EXCEPT !.products = LoadProducts(read).res],
          st |-> LoadProducts(read).st]
    ELSE [ok |-> FALSE,
          session |-> sess,
          st |-> <<"error: Product data file not found">>]

\* app.py lines 320-327 and 180-186: how far a run gets before the Generate button
RunReaches(loaded) ==
    IF ~loaded.ok THEN "file not found"
    ELSE IF loaded.session.products = <<>> THEN "no products"
    ELSE "rendered"

\* the messages of a run up to the Generate button: app.py lines 160, 185 and
\* generator.py line 255
RunMessages(loaded) ==
    loaded.st \o IF RunReaches(loaded) = "no products"
                 THEN <<"warning: Please load product data first.">>
                 ELSE <<>>

\* generator.load_products called on its own
load_products ==
    \E read \in ReadOutcomes :
        /\ lastOp' = "load_products"
        /\ args' = [read |-> read]
        /\ ret' = Value(LoadProducts(read).res)
        /\ st' = LoadProducts(read).st
        /\ UNCHANGED <<heap, held, remote, fs, attempts, threads, session>>

\* a script run that does not reach a pressed Generate button: the file is
\* missing, the catalog is empty, or the button is not pressed
main_without_generate ==
    \E exists \in BOOLEAN, read \in ReadOutcomes, clicked \in BOOLEAN :
        LET loaded == LoadProductData(InitializeSessionState(session), exists, read)
        IN  /\ RunReaches(loaded) = "rendered" => ~clicked
            /\ heap' = SessionGenerator(session, heap)
            /\ session' = [loaded.session EXCEPT
                              !.run = [stopped |-> RunReaches(loaded),
                                       generate_called |-> FALSE,
                                       catalog |-> loaded.session.products,
                                       st |-> RunMessages(loaded)]]
            /\ lastOp' = "main"
            /\ args' = [exists |-> exists, read |-> read, clicked |-> clicked]
            /\ ret' = Value(PyNone)
            /\ st' = RunMessages(loaded)
            /\ UNCHANGED <<held, remote, fs, attempts, threads>>

\* a script run in which the Generate button is pressed (app.py lines 242-255)
main_generate(limit, ctypes, tones, langs, texts) ==
    /\ SessionGenerator(session, heap)["stats"].total_generations < limit
    /\ attempts < limit
    /\ \E read \in ReadOutcomes :
        LET loaded == LoadProductData(InitializeSessionState(session), TRUE, read)
        IN  /\ RunReaches(loaded) = "rendered"
            /\ \E i \in 1..Len(loaded.session.products),
                  content_type \in ctypes, tone \in tones, language \in langs,
                  o \in RaisedOutcomes \cup ReturnedOutcomes(texts) :
                \E run \in {GenerateContentRun(SessionGenerator(session, heap)["stats"],
                                              loaded.session.products[i],
                                              content_type, tone, language, o)} :
                    /\ heap' = [SessionGenerator(session, heap) EXCEPT !["stats"] = run.stats]
                    /\ session' = [loaded.session EXCEPT
                                      !.generated_content = run.res,
                                      !.run = [stopped |-> "rendered",
                                               generate_called |-> TRUE,
                                               catalog |-> loaded.session.products,
                                               st |-> loaded.st \o run.st
                                                      \o FallbackNotice(run.res)]]
                    /\ lastOp' = "main"
                    /\ args' = [exists |-> TRUE, read |-> read, clicked |-> TRUE,
                                product_data |-> loaded.session.products[i],
                                content_type |-> content_type, tone |-> tone,
                                language |-> language, response |-> o]
                    /\ remote' = run.remote
                    /\ ret' = Value(PyNone)
                    /\ st' = loaded.st \o run.st \o FallbackNotice(run.res)
                    /\ attempts' = attempts + run.remote.calls
                    /\ UNCHANGED <<held, fs, threads>>

\* the content types the user picks in the runs below
AppContentTypes == {"Email", "Social Post"}

NextApp ==
    \/ load_products
    \/ main_without_generate
    \/ main_generate(MaxCalls, AppContentTypes, {"Casual"}, Languages, StatsTexts)

SpecApp == Init /\ [][NextApp]_vars

\* C20: load_products returns the empty list when the file is not found or
\* cannot be parsed, and no script run calls generate_content with an empty
\* catalog: with the file missing main returns before the header and the
\* panels, and with an empty product list the generator panel returns before
\* the Generate button.
C20_NoGenerationOnEmptyCatalog ==
    /\ (lastOp = "load_products" /\ args.read.kind # "rows") => ret.value = <<>>
    /\ lastOp = "main"
        => /\ session.run.generate_called => session.run.catalog # <<>>
           /\ ~args.exists
                => session.run.stopped = "file not found" /\ ~session.run.generate_called
           /\ (args.exists /\ args.read.kind # "rows")
                => /\ session.products = <<>>
                   /\ session.run.stopped = "no products"
                   /\ ~session.run.generate_called
           /\ (args.exists /\ args.read.rows = <<>>)
                => session.run.stopped = "no products" /\ ~session.run.generate_called

C20_Witness ==
    /\ lastOp = "main"
    /\ args.exists
    /\ args.read.kind = "ParserError"
    /\ args.clicked
    /\ session.products = <<>>
    /\ session.run.stopped = "no products"
    /\ ~session.run.generate_called
    /\ session.generated_content # Value(PyNone)
    /\ GeneratorStats.total_generations = 1

C20_WitnessFileMissing ==
    /\ lastOp = "main"
    /\ ~args.exists
    /\ session.products # <<>>
    /\ session.run.stopped = "file not found"
    /\ ~session.run.generate_called

-----------------------------------------------------------------------------
(* Claims about the reading operations (SpecStats) *)

ReadingOperations == {"get_generation_stats", "calculate_kpis", "create_roi_calculation"}

\* C21: get_generation_stats, calculate_kpis and create_roi_calculation only
\* read: in any order and number between generate_content calls each leaves
\* the three counters as they were, and what it returns is fixed by the
\* counters (by the KPIs given, for create_roi_calculation): with N
\* generations the copy holds the counters, the KPIs are N / 2 hours, 12 N,
\* N and an average of 30 (0 for N = 0).
C21_ReadingOperationsReadOnly ==
    [][lastOp' \in ReadingOperations
        => /\ heap'["stats"] = heap["stats"]
           /\ attempts' = attempts
           /\ fs' = fs
           /\ lastOp' = "get_generation_stats" => heap'[ret'.value] = heap["stats"]
           /\ lastOp' = "calculate_kpis"
                => ret'.value =
                     [time_saved_hours |-> 5 * heap["stats"].total_generations,
                      cost_saved_usd |-> 12 * heap["stats"].total_generations,
                      generations_count |-> heap["stats"].total_generations,
                      avg_time_per_generation |->
                          IF heap["stats"].total_generations = 0 THEN 0 ELSE 300]
           /\ lastOp' = "create_roi_calculation"
                => ret'.value =
                     [manual_cost |-> 450 * args'.kpis.time_saved_hours,
                      ai_cost |-> 8 * args'.kpis.generations_count,
                      net_savings |-> 450 * args'.kpis.time_saved_hours
                                      - 8 * args'.kpis.generations_count,
                      roi_percentage |->
                          [num |-> 100 * (450 * args'.kpis.time_saved_hours
                                          - 8 * args'.kpis.generations_count),
                           den |-> IF 8 * args'.kpis.generations_count > 100
                                   THEN 8 * args'.kpis.generations_count ELSE 100],
                      cost_per_content |-> 8]]_vars

C21_Witness ==
    /\ lastOp = "create_roi_calculation"
    /\ held = "copy"
    /\ heap["copy"].total_generations = -1
    /\ GeneratorStats.total_generations = 2
    /\ GeneratorStats.total_time_saved = 60
    /\ args.kpis.generations_count = 2
    /\ ret.value.manual_cost = 4500
    /\ ret.value.ai_cost = 16

-----------------------------------------------------------------------------
(* Claims about the metadata and the fallback text (Spec, SpecTables) *)

\* C22 as stated: the metadata of every result generate_content returns, the
\* error-result included, records the product identifier of the given product
\* and the content type, tone and language as passed in.
C22_MetadataRecordsIdentifier ==
    (IsCall /\ ~ret.raised /\ "ProductID" \in DOMAIN args.product_data)
        => /\ ret.value.metadata.product_name = args.product_data["ProductID"]
           /\ ret.value.metadata.content_type = args.content_type
           /\ ret.value.metadata.tone = args.tone
           /\ ret.value.metadata.language = args.language

\* C22 as amended: the metadata of every result generate_content returns, the
\* error-result included, records the name of the given product (not its
\* identifier) and the content type, tone and language as passed in, within
\* the enumerations or not.
C22_MetadataRecordsRequest ==
    (IsCall /\ ~ret.raised)
        => /\ ret.value.metadata.product_name = args.product_data["Product Name"]
           /\ ret.value.metadata.content_type = args.content_type
           /\ ret.value.metadata.tone = args.tone
           /\ ret.value.metadata.language = args.language
           /\ DOMAIN ret.value.metadata \subseteq
                {"product_name", "content_type", "tone", "language", "error"}

C22_Witness ==
    /\ IsCall
    /\ ~ret.raised
    /\ args.language = "German"
    /\ "ProductID" \in DOMAIN args.product_data
    /\ args.product_data["ProductID"] = Text(<<"2">>)
    /\ ret.value.content = ApologyText
    /\ ret.value.metadata.product_name = Text(<<" ", "n", ";">>)
    /\ ret.value.metadata.language = "German"

IsFallbackCall == lastOp = "_generate_fallback_content" /\ InEnumerations /\ ~ret.raised

RECURSIVE Count(_, _)
\* how often the token c stands in text
Count(text, c) ==
    IF text = <<>> THEN 0
    ELSE (IF Head(text) = c THEN 1 ELSE 0) + Count(Tail(text), c)

RECURSIVE CountInserted(_, _, _, _)
\* how often c stands in the attributes an entry inserts as they are, from the
\* i-th on
CountInserted(product_data, order, i, c) ==
    IF i > Len(order) THEN 0
    ELSE (IF order[i] = "Features/Attributes" THEN 0 ELSE Count(product_data[order[i]], c))
         + CountInserted(product_data, order, i + 1, c)

RECURSIVE LenInserted(_, _, _)
LenInserted(product_data, order, i) ==
    IF i > Len(order) THEN 0
    ELSE Len(product_data[order[i]]) + LenInserted(product_data, order, i + 1)

\* the features stand once in every entry: each semicolon of theirs has become
\* a comma and a blank, and every other semicolon and comma of the text comes
\* from an attribute inserted as it is
SemicolonsReplaced ==
    LET p == args.product_data
        order == FallbackOrder(args.content_type, args.tone)
        text == ret.value.s
        f == p["Features/Attributes"]
    IN  /\ Count(text, Ch(";")) = CountInserted(p, order, 1, Ch(";"))
        /\ Count(text, Ch(",")) = CountInserted(p, order, 1, Ch(",")) + Count(f, Ch(";")) + Count(f, Ch(","))
        /\ Len(text) = 1 + Len(order) + LenInserted(p, order, 1) + Count(f, Ch(";"))

\* C23 as stated: in the fallback content every semicolon of the features is
\* replaced by a comma separator and none survives, name, category and target
\* audience are inserted unchanged, and the content depends on the four
\* attributes and the three selectors only.
C23_FallbackInsertsAllAttributes ==
    IsFallbackCall
        => /\ SemicolonsReplaced
           /\ Contains(ret.value.s, args.product_data["Product Name"])
           /\ Contains(ret.value.s, args.product_data["Category"])
           /\ Contains(ret.value.s, args.product_data["Target Audience"])
           /\ ret = _generate_fallback_content([f \in FieldSet |-> args.product_data[f]],
                                               args.content_type, args.tone, args.language)

\* C23 as amended: in the fallback content every semicolon of the features is
\* replaced by a comma and a blank and none survives, name and target audience
\* are inserted unchanged, the category is inserted unchanged by every entry
\* but the two of Social Post / Playful, which leave it out, and the content
\* depends on the four attributes and the three selectors only.
C23_FallbackInsertsAttributes ==
    IsFallbackCall
        => /\ SemicolonsReplaced
           /\ Contains(ret.value.s, args.product_data["Product Name"])
           /\ (args.content_type # "Social Post" \/ args.tone # "Playful")
                => Contains(ret.value.s, args.product_data["Category"])
           /\ Contains(ret.value.s, args.product_data["Target Audience"])
           /\ ret = _generate_fallback_content([f \in FieldSet |-> args.product_data[f]],
                                               args.content_type, args.tone, args.language)

C23_Witness ==
    /\ IsFallbackCall
    /\ args.content_type = "Social Post"
    /\ args.tone = "Playful"
    /\ "ProductID" \in DOMAIN args.product_data
    /\ args.product_data["Features/Attributes"] = Text(<<";", "f", " ">>)
    /\ Count(ret.value.s, Ch(";")) = 1
    /\ Contains(ret.value.s, Text(<<",", " ", "f", " ">>))
    /\ ~Contains(ret.value.s, Text(<<"c", " ">>))

SelectorOutside(a) ==
    a.content_type \notin ContentTypes \/ a.tone \notin Tones \/ a.language \notin Languages

\* C24: a content type, tone or language outside the enumerations makes the
\* lookup of the prompt table and of the fallback table fail with a KeyError
\* (no default entry); a generate_content call with such a selector makes no
\* remote call, leaves the counters as they were and returns neither remote
\* text nor fallback text: it returns the error-result, or raises.
C24_LookupErrorOutsideEnumerations ==
    [][(lastOp' = "generate_content" /\ SelectorOutside(args'))
        => /\ get_prompt_template(args'.content_type, args'.tone, args'.language).raised
           /\ get_prompt_template(args'.content_type, args'.tone, args'.language).exc.exc = "KeyError"
           /\ FirstMissing(args'.product_data) = 0
                => _generate_fallback_content(args'.product_data, args'.content_type,
                                              args'.tone, args'.language).raised
           /\ remote'.calls = 0
           /\ attempts' = attempts
           /\ heap' = heap
           /\ ret'.raised \/ (ret'.value.content = ApologyText /\ HasErrorIndicator(ret'.value))]_vars

C24_Witness ==
    /\ IsCall
    /\ args.content_type = "Email"
    /\ args.tone = "Formal"
    /\ args.language = "French"
    /\ FirstMissing(args.product_data) = 0
    /\ remote.calls = 0
    /\ ~ret.raised
    /\ ret.value.content = ApologyText
    /\ ret.value.metadata.error = <<Ch("'"), Msg("Formal"), Ch("'")>>
    /\ GeneratorStats.total_generations = 1

-----------------------------------------------------------------------------
(* Claims about the session of the application (SpecApp) *)

NoResultYet == Value(PyNone)

\* C25: in one session generated_content is None until a run with a pressed
\* Generate button stores the result of its generate_content call; every
\* later run without a generation leaves it as it is, none sets it back to
\* None, and no run after the first creates a new ContentGenerator: the
\* counters persist and only grow.
C25_ResultAndGeneratorPersist ==
    [][lastOp' = "main"
        => /\ session'.run.generate_called
                => /\ session'.generated_content =
                        GenerateContentRun(heap["stats"], args'.product_data, args'.content_type,
                                           args'.tone, args'.language, args'.response).res
                   /\ session'.generated_content # NoResultYet
                   /\ heap'["stats"].total_generations >= heap["stats"].total_generations
           /\ ~session'.run.generate_called
                => /\ session'.generated_content = session.generated_content
                   /\ heap'["stats"] = heap["stats"]
           /\ session.generated_content # NoResultYet
                => session'.generated_content # NoResultYet
           /\ session'.keys = {"generator", "generated_content", "products"}]_vars

C25_Witness ==
    /\ lastOp = "main"
    /\ ~args.exists
    /\ session.run.stopped = "file not found"
    /\ ~session.run.generate_called
    /\ session.generated_content # NoResultYet
    /\ ~session.generated_content.raised
    /\ session.generated_content.value.content = <<Ch("x")>>
    /\ GeneratorStats.total_generations = 2

C25_WitnessNoResultYet ==
    /\ lastOp = "main"
    /\ session.run.stopped = "rendered"
    /\ session.generated_content = NoResultYet
    /\ GeneratorStats.total_generations = 0

-----------------------------------------------------------------------------
(* Claims about the counters and the results (SpecStats, Spec, SpecApp) *)

\* C26: between the operations of a generator total_time_saved is 30 times
\* and total_cost_saved 12 times total_generations, which is never negative;
\* so calculate_kpis reports an average of 30 (300 tenths) as soon as one
\* generation is counted.
C26_CountersProportional ==
    /\ GeneratorStats.total_generations >= 0
    /\ GeneratorStats.total_time_saved = 30 * GeneratorStats.total_generations
    /\ GeneratorStats.total_cost_saved = 12 * GeneratorStats.total_generations
    /\ (lastOp = "calculate_kpis" /\ GeneratorStats.total_generations >= 1)
        => ret.value.avg_time_per_generation = 300

C26_Witness ==
    /\ lastOp = "calculate_kpis"
    /\ GeneratorStats.total_generations = 3
    /\ GeneratorStats.total_time_saved = 90
    /\ GeneratorStats.total_cost_saved = 36
    /\ ret.value.avg_time_per_generation = 300

\* C27: a generate_content call changes the counters exactly when it returns
\* a usable result: a call that raises or returns the error-result leaves the
\* three counters as they were, also when the remote call returned a value
\* that is not a string.
C27_CountersChangeOnlyWithUsableResult ==
    [][lastOp' = "generate_content"
        => ((heap'["stats"] # heap["stats"])
            <=> (~ret'.raised /\ ~HasErrorIndicator(ret'.value)))]_vars

\* The same statement for every call but the one whose remote call returned
\* None.
C27_CountersChangeUnlessNone ==
    [][(lastOp' = "generate_content"
        /\ ~(remote'.kind = "return" /\ args'.response.value.type = "NoneType"))
        => ((heap'["stats"] # heap["stats"])
            <=> (~ret'.raised /\ ~HasErrorIndicator(ret'.value)))]_vars

C27_WitnessNoneCounted ==
    /\ RemoteReturned
    /\ args.response.value.type = "NoneType"
    /\ ~ret.raised
    /\ HasErrorIndicator(ret.value)
    /\ ret.value.content = ApologyText
    /\ GeneratorStats.total_generations = 1
    /\ attempts = 1

\* the notice of app.py line 255 is among the messages of the run
NoticeShown(messages) ==
    \E i \in 1..Len(messages) :
        messages[i] = "info: Using fallback content generation due to API limitations"

\* the run pressed Generate and its remote call failed, so that the stored
\* content is the fallback table entry of the request
StoredFallbackText ==
    /\ lastOp = "main"
    /\ session.run.generate_called
    /\ args.response.kind \in {"StopIteration", "Exception"}
    /\ ~session.generated_content.raised
    /\ session.generated_content.value.content =
        FallbackEntry(args.product_data, args.content_type, args.tone, args.language)

\* C28: a run that pressed Generate shows the fallback notice exactly when
\* the stored result's content is fallback text: always after a failed remote
\* call that gave fallback text, never for AI text or for the apology of an
\* error-result.
C28_NoticeExactlyForFallbackText ==
    (lastOp = "main" /\ session.run.generate_called)
        => (NoticeShown(session.run.st) <=> StoredFallbackText)

\* What the run does: the notice is shown exactly for an error-result.
C28_NoticeExactlyForErrorResult ==
    (lastOp = "main" /\ session.run.generate_called)
        => (NoticeShown(session.run.st)
            <=> (~session.generated_content.raised
                 /\ HasErrorIndicator(session.generated_content.value)
                 /\ session.generated_content.value.content = ApologyText))

C28_WitnessFallbackWithoutNotice ==
    /\ StoredFallbackText
    /\ ~NoticeShown(session.run.st)
    /\ ~HasErrorIndicator(session.generated_content.value)

C28_WitnessApologyWithNotice ==
    /\ lastOp = "main"
    /\ session.run.generate_called
    /\ args.response.kind = "return"
    /\ session.generated_content.value.content = ApologyText
    /\ NoticeShown(session.run.st)

====
